---- MODULE Spec2Model ----
(***************************************************************************)
(* Model of tools/model_factory.py: the DeepSeekChatOpenAI wrapper, whose  *)
(* _generate and _agenerate re-parse tool-call arguments that arrive as    *)
(* JSON text, and the create_chat_model factory that routes on base_url.   *)
(*                                                                         *)
(* Text is a sequence of one-character strings, so that str.lower, the     *)
(* substring test and json.loads are computed character by character.      *)
(* Python values are tagged records [type, val], as isinstance sees them.  *)
(***************************************************************************)
EXTENDS Integers, Sequences, FiniteSets, TLC

VARIABLES
    entry,      \* which entry point the caller invoked: "_generate" / "_agenerate"
    pc,         \* position of the invocation
    calls,      \* how many times super()._generate / super()._agenerate was invoked
    upstream,   \* what the underlying call returned: [id, generations], or NoResult
    result,     \* the local `result` of the entry point: [id, generations], mutated in place
    passes,     \* how many times the patching loops ran over `result`
    returned,   \* what the caller received: [id, generations], or NoResult
    error,      \* the exception the caller received, or NoError
    base_url,   \* create_chat_model's base_url argument
    verbose,    \* create_chat_model's verbose argument
    client,     \* class of the object create_chat_model returned, or NoClient
    printed,    \* whether the diagnostic line was printed
    subject,    \* SpecPass: the generations the patching loops are first applied to
    first,      \* SpecPass: the generations after the first application
    latest,     \* SpecPass: the generations after the latest application
    applied     \* SpecPass: how many times the loops were applied

vars == <<entry, pc, calls, upstream, result, passes, returned, error,
          base_url, verbose, client, printed, subject, first, latest, applied>>

genVars == <<entry, pc, calls, upstream, result, passes, returned, error>>
factoryVars == <<base_url, verbose, client, printed>>
passVars == <<subject, first, latest, applied>>

-----------------------------------------------------------------------------
(* Python values *)

PyStr(s) == [type |-> "str", val |-> s]
PyInt(n) == [type |-> "int", val |-> n]
PyBool(b) == [type |-> "bool", val |-> b]
PyFloat(text) == [type |-> "float", val |-> text]
PyNone == [type |-> "NoneType", val |-> "None"]
PyList(q) == [type |-> "list", val |-> q]
PyDict(f) == [type |-> "dict", val |-> f]

\* isinstance(v, str)
IsStr(v) == v.type = "str"

EmptyDict == [k \in {} |-> PyNone]

-----------------------------------------------------------------------------
(* json.loads, character by character: objects, arrays, strings, numbers   *)
(* and the literals null, true, false; the outcome is [ok, val, end], with *)
(* ok = FALSE standing for json.JSONDecodeError. The escape \uXXXX and the  *)
(* literals NaN, Infinity and -Infinity are left out: no document of the   *)
(* model holds them.                                                       *)

Whitespace == {" ", "\t", "\n", "\r"}
Digit == {"0", "1", "2", "3", "4", "5", "6", "7", "8", "9"}
\* U+0008, which a TLA+ string cannot hold, is written as a character of its own
Backspace == "<U+0008>"
ControlChars == {"\t", "\n", "\r", "\f", Backspace}

DecodeError == [ok |-> FALSE, val |-> PyNone, end |-> 0]
Decoded(v, e) == [ok |-> TRUE, val |-> v, end |-> e]

DigitValue(c) ==
    CASE c = "0" -> 0 [] c = "1" -> 1 [] c = "2" -> 2 [] c = "3" -> 3
      [] c = "4" -> 4 [] c = "5" -> 5 [] c = "6" -> 6 [] c = "7" -> 7
      [] c = "8" -> 8 [] c = "9" -> 9

\* the character a one-letter escape of a JSON string stands for, "" when there is none
Unescape(c) ==
    CASE c = "\"" -> "\"" [] c = "\\" -> "\\" [] c = "/" -> "/"
      [] c = "n" -> "\n" [] c = "t" -> "\t" [] c = "r" -> "\r" [] c = "f" -> "\f"
      [] c = "b" -> Backspace
      [] OTHER -> ""

RECURSIVE SkipWhitespace(_, _)
SkipWhitespace(s, i) ==
    IF i <= Len(s) /\ s[i] \in Whitespace THEN SkipWhitespace(s, i + 1) ELSE i

StartsWith(s, i, word) ==
    /\ i + Len(word) - 1 <= Len(s)
    /\ SubSeq(s, i, i + Len(word) - 1) = word

\* the characters of a string body from position i, after its opening quote
RECURSIVE ScanString(_, _, _)
ScanString(s, i, acc) ==
    IF i > Len(s) THEN DecodeError
    ELSE IF s[i] = "\"" THEN Decoded(PyStr(acc), i + 1)
    ELSE IF s[i] = "\\" THEN
        IF i + 1 > Len(s) \/ Unescape(s[i + 1]) = "" THEN DecodeError
        ELSE ScanString(s, i + 2, Append(acc, Unescape(s[i + 1])))
    ELSE IF s[i] \in ControlChars THEN DecodeError
    ELSE ScanString(s, i + 1, Append(acc, s[i]))

\* the digits of an integer from position i
RECURSIVE ScanDigits(_, _, _)
ScanDigits(s, i, n) ==
    IF i <= Len(s) /\ s[i] \in Digit
    THEN ScanDigits(s, i + 1, 10 * n + DigitValue(s[i]))
    ELSE [val |-> n, end |-> i]

\* where the integer part -?(0|[1-9][0-9]*) that starts at i ends: a leading zero ends it
IntegerEnd(s, i) ==
    LET j == IF i <= Len(s) /\ s[i] = "-" THEN i + 1 ELSE i
    IN IF j > Len(s) \/ s[j] \notin Digit THEN i
       ELSE IF s[j] = "0" THEN j + 1
       ELSE ScanDigits(s, j, 0).end

\* where the fraction (\.[0-9]+)? that may start at i ends
FractionEnd(s, i) ==
    IF i + 1 <= Len(s) /\ s[i] = "." /\ s[i + 1] \in Digit
    THEN ScanDigits(s, i + 1, 0).end
    ELSE i

\* where the exponent ([eE][-+]?[0-9]+)? that may start at i ends
ExponentEnd(s, i) ==
    IF i <= Len(s) /\ s[i] \in {"e", "E"}
    THEN LET k == IF i + 1 <= Len(s) /\ s[i + 1] \in {"+", "-"} THEN i + 2 ELSE i + 1
         IN IF k <= Len(s) /\ s[k] \in Digit THEN ScanDigits(s, k, 0).end ELSE i
    ELSE i

\* the value of the integer that spans i .. e - 1
IntegerValue(s, i, e) ==
    IF s[i] = "-" THEN 0 - ScanDigits(s, i + 1, 0).val ELSE ScanDigits(s, i, 0).val

\* a number: an int when it has neither fraction nor exponent, else a float, kept
\* as its text
ScanNumber(s, i) ==
    IF IntegerEnd(s, i) = i THEN DecodeError
    ELSE IF ExponentEnd(s, FractionEnd(s, IntegerEnd(s, i))) = IntegerEnd(s, i)
    THEN Decoded(PyInt(IntegerValue(s, i, IntegerEnd(s, i))), IntegerEnd(s, i))
    ELSE Decoded(PyFloat(SubSeq(s, i, ExponentEnd(s, FractionEnd(s, IntegerEnd(s, i))) - 1)),
                 ExponentEnd(s, FractionEnd(s, IntegerEnd(s, i))))

RECURSIVE ScanValue(_, _)
RECURSIVE ScanMembers(_, _, _)
RECURSIVE ScanItems(_, _, _)

\* the members of an object from position i, at the opening quote of a key
ScanMembers(s, i, acc) ==
    IF i > Len(s) \/ s[i] # "\"" THEN DecodeError
    ELSE LET key == ScanString(s, i + 1, <<>>)
         IN IF ~key.ok THEN DecodeError
            ELSE LET c == SkipWhitespace(s, key.end)
                 IN IF c > Len(s) \/ s[c] # ":" THEN DecodeError
                    ELSE LET v == ScanValue(s, SkipWhitespace(s, c + 1))
                         IN IF ~v.ok THEN DecodeError
                            ELSE LET more == (key.val.val :> v.val) @@ acc
                                     n == SkipWhitespace(s, v.end)
                                 IN IF n > Len(s) THEN DecodeError
                                    ELSE IF s[n] = "}" THEN Decoded(PyDict(more), n + 1)
                                    ELSE IF s[n] = ","
                                    THEN ScanMembers(s, SkipWhitespace(s, n + 1), more)
                                    ELSE DecodeError

\* the items of an array from position i, at the start of an item
ScanItems(s, i, acc) ==
    LET v == ScanValue(s, i)
    IN IF ~v.ok THEN DecodeError
       ELSE LET more == Append(acc, v.val)
                n == SkipWhitespace(s, v.end)
            IN IF n > Len(s) THEN DecodeError
               ELSE IF s[n] = "]" THEN Decoded(PyList(more), n + 1)
               ELSE IF s[n] = "," THEN ScanItems(s, SkipWhitespace(s, n + 1), more)
               ELSE DecodeError

ScanValue(s, i) ==
    IF i > Len(s) THEN DecodeError
    ELSE IF s[i] = "\"" THEN ScanString(s, i + 1, <<>>)
    ELSE IF s[i] = "{" THEN
        LET j == SkipWhitespace(s, i + 1)
        IN IF j <= Len(s) /\ s[j] = "}" THEN Decoded(PyDict(EmptyDict), j + 1)
           ELSE ScanMembers(s, j, EmptyDict)
    ELSE IF s[i] = "[" THEN
        LET j == SkipWhitespace(s, i + 1)
        IN IF j <= Len(s) /\ s[j] = "]" THEN Decoded(PyList(<<>>), j + 1)
           ELSE ScanItems(s, j, <<>>)
    ELSE IF StartsWith(s, i, <<"n", "u", "l", "l">>) THEN Decoded(PyNone, i + 4)
    ELSE IF StartsWith(s, i, <<"t", "r", "u", "e">>) THEN Decoded(PyBool(TRUE), i + 4)
    ELSE IF StartsWith(s, i, <<"f", "a", "l", "s", "e">>) THEN Decoded(PyBool(FALSE), i + 5)
    ELSE ScanNumber(s, i)

\* the end of json.loads: nothing but whitespace may follow the value
WholeDocument(s, v) ==
    IF v.ok /\ SkipWhitespace(s, v.end) = Len(s) + 1 THEN v ELSE DecodeError

\* json.loads(s): one value between optional whitespace, nothing after it
JsonLoads(s) == WholeDocument(s, ScanValue(s, SkipWhitespace(s, 1)))

-----------------------------------------------------------------------------
(* The result of the underlying call: result.generations is a sequence of  *)
(* batches, each a sequence of generation entries (Python objects, here    *)
(* records whose fields are the attributes hasattr finds); a message's     *)
(* additional_kwargs and every tool call are dicts (records whose fields   *)
(* are the keys).                                                          *)

NoError == "none"

\* batches + generation entries + tool calls of one result
MaxSize == 5

Q == "\""
BS == "\\"

\* '{"x":1,"y":"a"}'
ArgsObject == <<"{", Q, "x", Q, ":", "1", ",", Q, "y", Q, ":", Q, "a", Q, "}">>
\* 'not-json'
ArgsNotJson == <<"n", "o", "t", "-", "j", "s", "o", "n">>
\* '42'
ArgsNumber == <<"4", "2">>
\* '[1]'
ArgsList == <<"[", "1", "]">>
\* '"a"'
ArgsQuoted == <<Q, "a", Q>>
\* '"{\"x\":1}"', an object encoded twice
ArgsTwice == <<Q, "{", BS, Q, "x", BS, Q, ":", "1", "}", Q>>

ArgStrings == {ArgsObject, ArgsNotJson, ArgsNumber, ArgsList, ArgsQuoted, ArgsTwice}

\* arguments as the endpoint should have sent them: {"x": 1}
ArgsMapping == PyDict(<<"x">> :> PyInt(1))

ArgValues == {PyStr(s) : s \in ArgStrings} \cup {ArgsMapping}

ToolCallWith(a) ==
    [id |-> "call_1", type |-> "function", function |-> [name |-> "buy", arguments |-> a]]

ToolCalls ==
    {ToolCallWith(a) : a \in ArgValues}
        \cup {[id |-> "call_1", type |-> "function", function |-> [name |-> "buy"]],
              [id |-> "call_1", type |-> "function"]}

GenWith(kwargs) ==
    [text |-> "", message |-> [content |-> "", additional_kwargs |-> kwargs]]

\* generation entries that hold no tool call
PlainGens ==
    <<[text |-> ""],
      [text |-> "", message |-> [content |-> ""]],
      GenWith([refusal |-> PyNone]),
      GenWith([refusal |-> PyNone, tool_calls |-> PyNone]),
      GenWith([refusal |-> PyNone, tool_calls |-> PyList(<<>>)])>>

\* the shape of a generation entry: <<p, 0>> is the p-th plain entry, <<0, n>> an
\* entry whose message holds n tool calls; its size is 1 + n
GenShapesOfSize(n) ==
    IF n = 1 THEN {<<p, 0>> : p \in 1..Len(PlainGens)} ELSE {<<0, n - 1>>}

\* sequences of entry shapes of total size r
RECURSIVE GenShapeSeqs(_)
GenShapeSeqs(r) ==
    IF r = 0 THEN {<<>>}
    ELSE UNION {{<<g>> \o rest : g \in GenShapesOfSize(k), rest \in GenShapeSeqs(r - k)} :
                  k \in 1..r}

\* sequences of batch shapes of total size r: a batch weighs 1 + its entries
RECURSIVE BatchShapeSeqs(_)
BatchShapeSeqs(r) ==
    IF r = 0 THEN {<<>>}
    ELSE UNION {{<<b>> \o rest : b \in GenShapeSeqs(k - 1), rest \in BatchShapeSeqs(r - k)} :
                  k \in 1..r}

Shapes == UNION {BatchShapeSeqs(r) : r \in 0..MaxSize}

RECURSIVE CallsInBatch(_)
CallsInBatch(b) == IF b = <<>> THEN 0 ELSE Head(b)[2] + CallsInBatch(Tail(b))

RECURSIVE CallsInShape(_)
CallsInShape(sh) == IF sh = <<>> THEN 0 ELSE CallsInBatch(Head(sh)) + CallsInShape(Tail(sh))

\* the entries of a batch shape, its tool calls taken from fill after the first `used`
RECURSIVE BuildBatch(_, _, _)
BuildBatch(b, fill, used) ==
    IF b = <<>> THEN <<>>
    ELSE LET g == Head(b)
             gen == IF g[1] > 0 THEN PlainGens[g[1]]
                    ELSE GenWith([refusal |-> PyNone,
                                  tool_calls |-> PyList([i \in 1..g[2] |-> fill[used + i]])])
         IN <<gen>> \o BuildBatch(Tail(b), fill, used + g[2])

RECURSIVE BuildGenerations(_, _, _)
BuildGenerations(sh, fill, used) ==
    IF sh = <<>> THEN <<>>
    ELSE <<BuildBatch(Head(sh), fill, used)>>
            \o BuildGenerations(Tail(sh), fill, used + CallsInBatch(Head(sh)))

-----------------------------------------------------------------------------
(* Python's truth value and dict.get *)

Truthy(v) ==
    CASE v.type = "NoneType" -> FALSE
      [] v.type = "bool" -> v.val
      [] v.type = "int" -> v.val # 0
      [] v.type = "dict" -> DOMAIN v.val # {}
      [] OTHER -> Len(v.val) > 0

DictGet(d, key) == IF key \in DOMAIN d THEN d[key] ELSE PyNone

\* the outcome of a block of statements: the value it leaves and the exception, if
\* any, that left it
Normal(v) == [val |-> v, exc |-> NoError]
Raised(v, e) == [val |-> v, exc |-> e]

\* a for loop over items whose body, run on items[i], ends as outcomes[i]: the bodies
\* run in order and the first exception leaves the loop, the later items untouched
ForLoop(items, outcomes) ==
    LET stops == {i \in DOMAIN outcomes : outcomes[i].exc # NoError}
    IN IF stops = {} THEN Normal([i \in DOMAIN items |-> outcomes[i].val])
       ELSE LET k == CHOOSE i \in stops : \A j \in stops : i <= j
            IN Raised([i \in DOMAIN items |-> IF i <= k THEN outcomes[i].val ELSE items[i]],
                      outcomes[k].exc)

\* the tool calls are dicts of the list that additional_kwargs["tool_calls"] holds:
\* what the loop did to them shows in the generation entry
InPlace(gen, looped) ==
    Raised([gen EXCEPT !.message.additional_kwargs.tool_calls = PyList(looped.val)],
           looped.exc)

-----------------------------------------------------------------------------
(* DeepSeekChatOpenAI._generate: the loops over the result *)

\* the parsed value is stored as tool_call["arguments"]
generate_except_misplaced(tool_call, parsed) ==
    IF parsed.ok
    THEN Normal([k \in DOMAIN tool_call \cup {"arguments"} |->
                    IF k = "arguments" THEN parsed.val ELSE tool_call[k]])
    ELSE Normal(tool_call)

\* tool_call["function"]["arguments"] = json.loads(args), json.loads having ended
\* as `parsed`; except json.JSONDecodeError: pass
generate_except(tool_call, parsed) ==
    IF parsed.ok
    THEN Normal([tool_call EXCEPT !.function.arguments = parsed.val])
    ELSE Normal(tool_call)

\* json.loads is called and its value dropped
generate_try_dropped(tool_call, args) == Normal(tool_call)

\* the try statement
generate_try(tool_call, args) == generate_except(tool_call, JsonLoads(args.val))

\* the body of `for tool_call in tool_calls`
generate_tool_call(tool_call) ==
    IF "function" \in DOMAIN tool_call /\ "arguments" \in DOMAIN tool_call.function
    THEN IF IsStr(tool_call.function.arguments)
         THEN generate_try(tool_call, tool_call.function.arguments)
         ELSE Normal(tool_call)
    ELSE Normal(tool_call)

\* except json.JSONDecodeError: break -- the tool calls after a malformed one are skipped
generate_for_tool_call_break(tool_calls) ==
    LET outcomes == [i \in DOMAIN tool_calls |-> generate_tool_call(tool_calls[i])]
        failed == {i \in DOMAIN tool_calls :
                     /\ "function" \in DOMAIN tool_calls[i]
                     /\ "arguments" \in DOMAIN tool_calls[i].function
                     /\ IsStr(tool_calls[i].function.arguments)
                     /\ outcomes[i].val = tool_calls[i]}
    IN Normal([i \in DOMAIN tool_calls |->
                 IF \E k \in failed : k < i THEN tool_calls[i] ELSE outcomes[i].val])

\* for tool_call in tool_calls
generate_for_tool_call(tool_calls) ==
    ForLoop(tool_calls, [i \in DOMAIN tool_calls |-> generate_tool_call(tool_calls[i])])

\* the patched tool calls are added to the list instead of replacing its items
generate_gen_extend(gen) ==
    IF "message" \in DOMAIN gen /\ "additional_kwargs" \in DOMAIN gen.message
    THEN IF Truthy(DictGet(gen.message.additional_kwargs, "tool_calls"))
         THEN Normal([gen EXCEPT !.message.additional_kwargs.tool_calls =
                        PyList(@.val \o generate_for_tool_call(@.val).val)])
         ELSE Normal(gen)
    ELSE Normal(gen)

\* the body of `for gen in generation`
generate_gen(gen) ==
    IF "message" \in DOMAIN gen /\ "additional_kwargs" \in DOMAIN gen.message
    THEN IF Truthy(DictGet(gen.message.additional_kwargs, "tool_calls"))
         THEN InPlace(gen, generate_for_tool_call(gen.message.additional_kwargs.tool_calls.val))
         ELSE Normal(gen)
    ELSE Normal(gen)

\* for gen in generation
generate_for_gen(generation) ==
    ForLoop(generation, [i \in DOMAIN generation |-> generate_gen(generation[i])])

\* for generation in result.generations
generate_for_generation(generations) ==
    ForLoop(generations, [i \in DOMAIN generations |-> generate_for_gen(generations[i])])

\* return a copy of result
generate_return_copy(res) == [res EXCEPT !.id = res.id + 1]

\* return result
generate_return(res) == res

-----------------------------------------------------------------------------
(* DeepSeekChatOpenAI._agenerate: the loops over the result *)

\* no except clause: the decode error leaves the loops
agenerate_except_uncaught(tool_call, parsed) ==
    IF parsed.ok
    THEN Normal([tool_call EXCEPT !.function.arguments = parsed.val])
    ELSE Raised(tool_call, "JSONDecodeError")

\* tool_call["function"]["arguments"] = json.loads(args), json.loads having ended
\* as `parsed`; except json.JSONDecodeError: pass
agenerate_except(tool_call, parsed) ==
    IF parsed.ok
    THEN Normal([tool_call EXCEPT !.function.arguments = parsed.val])
    ELSE Normal(tool_call)

\* the try statement
agenerate_try(tool_call, args) == agenerate_except(tool_call, JsonLoads(args.val))

\* "arguments" looked up in tool_call instead of tool_call["function"]
agenerate_tool_call_toplevel(tool_call) ==
    IF "function" \in DOMAIN tool_call /\ "arguments" \in DOMAIN tool_call
    THEN IF IsStr(tool_call.arguments)
         THEN agenerate_try(tool_call, tool_call.arguments)
         ELSE Normal(tool_call)
    ELSE Normal(tool_call)

\* the body of `for tool_call in tool_calls`
agenerate_tool_call(tool_call) ==
    IF "function" \in DOMAIN tool_call /\ "arguments" \in DOMAIN tool_call.function
    THEN IF IsStr(tool_call.function.arguments)
         THEN agenerate_try(tool_call, tool_call.function.arguments)
         ELSE Normal(tool_call)
    ELSE Normal(tool_call)

\* for tool_call in tool_calls
agenerate_for_tool_call(tool_calls) ==
    ForLoop(tool_calls, [i \in DOMAIN tool_calls |-> agenerate_tool_call(tool_calls[i])])

\* additional_kwargs.setdefault("tool_calls", []) in place of .get("tool_calls")
agenerate_gen_setdefault(gen) ==
    IF "message" \in DOMAIN gen /\ "additional_kwargs" \in DOMAIN gen.message
    THEN IF Truthy(DictGet(gen.message.additional_kwargs, "tool_calls"))
         THEN InPlace(gen, agenerate_for_tool_call(gen.message.additional_kwargs.tool_calls.val))
         ELSE IF "tool_calls" \in DOMAIN gen.message.additional_kwargs THEN Normal(gen)
         ELSE Normal([gen EXCEPT !.message.additional_kwargs =
                        [k \in DOMAIN @ \cup {"tool_calls"} |->
                            IF k = "tool_calls" THEN PyList(<<>>) ELSE @[k]]])
    ELSE Normal(gen)

\* the body of `for gen in generation`
agenerate_gen(gen) ==
    IF "message" \in DOMAIN gen /\ "additional_kwargs" \in DOMAIN gen.message
    THEN IF Truthy(DictGet(gen.message.additional_kwargs, "tool_calls"))
         THEN InPlace(gen, agenerate_for_tool_call(gen.message.additional_kwargs.tool_calls.val))
         ELSE Normal(gen)
    ELSE Normal(gen)

\* for gen in generation
agenerate_for_gen(generation) ==
    ForLoop(generation, [i \in DOMAIN generation |-> agenerate_gen(generation[i])])

\* for generation in result.generations
agenerate_for_generation(generations) ==
    ForLoop(generations, [i \in DOMAIN generations |-> agenerate_for_gen(generations[i])])

\* return result
agenerate_return(res) == res

-----------------------------------------------------------------------------
(* One invocation of an entry point by the caller *)

Entries == {"_generate", "_agenerate"}

\* what the underlying client may raise: timeout, rate limit
UnderlyingErrors == {"APITimeoutError", "RateLimitError"}

NoOutcome == [kind |-> "none", id |-> 0, generations |-> <<>>, exc |-> NoError]
ResultObject(i, g) == [kind |-> "result", id |-> i, generations |-> g, exc |-> NoError]
ErrorOutcome(e) == [kind |-> "error", id |-> 0, generations |-> <<>>, exc |-> e]

\* the exception of super()._generate / await super()._agenerate leaves the entry
\* point: there is no handler around the call
\* except Exception as exc: raise RuntimeError(...) from exc
agenerate_propagate_wrapped(e) == "RuntimeError"

generate_propagate(e) == e
agenerate_propagate(e) == e

\* the caller invokes the entry point, which calls super()._generate(messages, stop, **kwargs)
\* or awaits super()._agenerate(messages, stop, **kwargs)
Invoke(e) ==
    /\ pc = "idle"
    /\ entry' = e
    /\ pc' = "calling"
    /\ calls' = calls + 1
    /\ UNCHANGED <<upstream, result, passes, returned, error>>
    /\ UNCHANGED <<factoryVars, passVars>>

\* the underlying call completes with a freshly built result
UnderlyingReturns ==
    /\ pc = "calling"
    /\ \E sh \in Shapes :
         \E fill \in [1..CallsInShape(sh) -> ToolCalls] :
            LET res == ResultObject(1, BuildGenerations(sh, fill, 0))
            IN /\ upstream' = res
               /\ result' = res
    /\ pc' = "received"
    /\ UNCHANGED <<entry, calls, passes, returned, error>>
    /\ UNCHANGED <<factoryVars, passVars>>

\* the underlying call fails
UnderlyingRaises ==
    /\ pc = "calling"
    /\ \E e \in UnderlyingErrors :
         /\ upstream' = ErrorOutcome(e)
         /\ error' = IF entry = "_generate" THEN generate_propagate(e)
                     ELSE agenerate_propagate(e)
    /\ pc' = "raised"
    /\ UNCHANGED <<entry, calls, result, passes, returned>>
    /\ UNCHANGED <<factoryVars, passVars>>

\* the loops of entry point e
Loops(e, generations) ==
    IF e = "_generate" THEN generate_for_generation(generations)
    ELSE agenerate_for_generation(generations)

\* the loops have mutated the result in place; an exception would leave the entry point
LoopsEnd(looped) ==
    /\ result' = [result EXCEPT !.generations = looped.val]
    /\ error' = looped.exc
    /\ pc' = IF looped.exc = NoError THEN "patched" ELSE "raised"

\* the loops over result.generations
PatchLoops ==
    /\ pc = "received"
    /\ LoopsEnd(Loops(entry, result.generations))
    /\ passes' = passes + 1
    /\ UNCHANGED <<entry, calls, upstream, returned>>
    /\ UNCHANGED <<factoryVars, passVars>>

\* return result
Return ==
    /\ pc = "patched"
    /\ returned' = IF entry = "_generate" THEN generate_return(result)
                   ELSE agenerate_return(result)
    /\ pc' = "returned"
    /\ UNCHANGED <<entry, calls, upstream, result, passes, error>>
    /\ UNCHANGED <<factoryVars, passVars>>

GenInit ==
    /\ entry = "none"
    /\ pc = "idle"
    /\ calls = 0
    /\ upstream = NoOutcome
    /\ result = NoOutcome
    /\ passes = 0
    /\ returned = NoOutcome
    /\ error = NoError

FactoryIdle ==
    /\ base_url = PyNone
    /\ verbose = FALSE
    /\ client = "none"
    /\ printed = FALSE

PassIdle ==
    /\ subject = <<>>
    /\ first = <<>>
    /\ latest = <<>>
    /\ applied = 0

Init == GenInit /\ FactoryIdle /\ PassIdle

Next ==
    \/ \E e \in Entries : Invoke(e)
    \/ UnderlyingReturns
    \/ UnderlyingRaises
    \/ PatchLoops
    \/ Return

Spec == Init /\ [][Next]_vars

-----------------------------------------------------------------------------
(* create_chat_model *)

LowerLetters ==
    <<"a", "b", "c", "d", "e", "f", "g", "h", "i", "j", "k", "l", "m", "n", "o", "p", "q",
      "r", "s", "t", "u", "v", "w", "x", "y", "z">>
UpperLetters ==
    <<"A", "B", "C", "D", "E", "F", "G", "H", "I", "J", "K", "L", "M", "N", "O", "P", "Q",
      "R", "S", "T", "U", "V", "W", "X", "Y", "Z">>

\* str.lower, on one character
LowerChar(c) ==
    IF \E k \in 1..Len(UpperLetters) : UpperLetters[k] = c
    THEN LowerLetters[CHOOSE k \in 1..Len(UpperLetters) : UpperLetters[k] = c]
    ELSE c

\* base_url.lower(): None has no such method
StrLower(v) ==
    IF v.type = "str" THEN Normal(PyStr([i \in 1..Len(v.val) |-> LowerChar(v.val[i])]))
    ELSE Raised(PyNone, "AttributeError")

\* sub in s
Contains(sub, s) ==
    \E i \in 1..(Len(s) - Len(sub) + 1) : SubSeq(s, i, i + Len(sub) - 1) = sub

\* "deepseek.com"
Marker == <<"d", "e", "e", "p", "s", "e", "e", "k", ".", "c", "o", "m">>

\* the substring test on base_url as written, without .lower()
is_official_deepseek_cased(url) ==
    IF ~Truthy(url) THEN Normal(url) ELSE Normal(PyBool(Contains(Marker, url.val)))

\* is_official_deepseek = (base_url and "deepseek.com" in base_url.lower());
\* `and` yields base_url itself when it is falsy
is_official_deepseek(url) ==
    IF ~Truthy(url) THEN Normal(url)
    ELSE LET low == StrLower(url)
         IN IF low.exc # NoError THEN Raised(PyNone, low.exc)
            ELSE Normal(PyBool(Contains(Marker, low.val.val)))

\* if is_official_deepseek: ... return DeepSeekChatOpenAI(...) else: return ChatOpenAI(...)
create_chat_model(url, verb) ==
    LET official == is_official_deepseek(url)
    IN IF official.exc # NoError
       THEN [client |-> "none", printed |-> FALSE, exc |-> official.exc]
       ELSE IF Truthy(official.val)
       THEN [client |-> "DeepSeekChatOpenAI", printed |-> verb, exc |-> NoError]
       ELSE [client |-> "ChatOpenAI", printed |-> FALSE, exc |-> NoError]

\* every way of writing the letters of word in upper or lower case
CaseVariants(word) ==
    {[i \in 1..Len(word) |->
        IF up[i] /\ \E k \in 1..Len(LowerLetters) : LowerLetters[k] = word[i]
        THEN UpperLetters[CHOOSE k \in 1..Len(LowerLetters) : LowerLetters[k] = word[i]]
        ELSE word[i]] : up \in [1..Len(word) -> BOOLEAN]}

\* "https://api."
UrlPrefix == <<"h", "t", "t", "p", "s", ":", "/", "/", "a", "p", "i", ".">>
\* "/v1"
UrlSuffix == <<"/", "v", "1">>

\* hosts that are not the vendor's: the proxy of the docstring, and near misses
OtherHosts ==
    {<<"p", "r", "o", "x", "y", ".", "e", "x", "a", "m", "p", "l", "e", ".", "c", "o", "m">>,
     <<"d", "e", "e", "p", "s", "e", "e", "k", ".", "c", "o">>,
     <<"d", "e", "e", "p", "s", "e", "e", "k", "c", "o", "m">>,
     <<"d", "e", "e", "p", ".", "s", "e", "e", "k", ".", "c", "o", "m">>,
     <<"D", "E", "E", "P", "S", "E", "E", "K", ".", "O", "R", "G">>,
     <<"d", "e", "e", "p", "s", "e", "e", "k", "-", "c", "o", "m">>,
     <<"a", "p", "i", ".", "o", "p", "e", "n", "a", "i", ".", "c", "o", "m">>}

Hosts == CaseVariants(Marker) \cup OtherHosts \cup {<<>>}

\* the base_url arguments: absent, empty, and a host with or without scheme and path
BaseUrls ==
    {PyNone}
        \cup {PyStr(pre \o host \o suf) :
                pre \in {<<>>, UrlPrefix}, host \in Hosts, suf \in {<<>>, UrlSuffix}}

CreateChatModel ==
    /\ client = "none"
    /\ error = NoError
    /\ \E url \in BaseUrls, verb \in BOOLEAN :
         LET made == create_chat_model(url, verb)
         IN /\ base_url' = url
            /\ verbose' = verb
            /\ client' = made.client
            /\ printed' = made.printed
            /\ error' = made.exc
    /\ UNCHANGED <<entry, pc, calls, upstream, result, passes, returned>>
    /\ UNCHANGED passVars

FactoryNext == CreateChatModel

SpecFactory == Init /\ [][FactoryNext]_vars

-----------------------------------------------------------------------------
(* The loops of an entry point as a function of result.generations, applied *)
(* repeatedly to one result                                                 *)

\* applications of the loops to one result
MaxApplications == 3

PassInit ==
    /\ GenInit
    /\ FactoryIdle
    /\ \E sh \in Shapes :
         \E fill \in [1..CallsInShape(sh) -> ToolCalls] :
            subject = BuildGenerations(sh, fill, 0)
    /\ first = <<>>
    /\ latest = subject
    /\ applied = 0

Applied(looped) ==
    /\ looped.exc = NoError
    /\ latest' = looped.val
    /\ first' = IF applied = 0 THEN looped.val ELSE first

\* the loops of entry point e run over the result once more
ApplyLoops(e) ==
    /\ applied < MaxApplications
    /\ Applied(Loops(e, latest))
    /\ applied' = applied + 1
    /\ UNCHANGED subject
    /\ UNCHANGED <<genVars, factoryVars>>

PassNext == \E e \in Entries : ApplyLoops(e)

SpecPass == PassInit /\ [][PassNext]_vars

-----------------------------------------------------------------------------
(* Reading a result: where its tool calls are and what their arguments are  *)

HoldsToolCalls(gen) ==
    /\ "message" \in DOMAIN gen
    /\ "additional_kwargs" \in DOMAIN gen.message
    /\ "tool_calls" \in DOMAIN gen.message.additional_kwargs
    /\ gen.message.additional_kwargs.tool_calls.type = "list"

ToolCallsOf(gen) ==
    IF HoldsToolCalls(gen) THEN gen.message.additional_kwargs.tool_calls.val ELSE <<>>

\* <<b, g, t>>: the t-th tool call of the g-th entry of the b-th batch
Sites(gs) ==
    UNION {UNION {{<<b, g, t>> : t \in 1..Len(ToolCallsOf(gs[b][g]))} :
                    g \in 1..Len(gs[b])} : b \in 1..Len(gs)}

At(gs, p) == ToolCallsOf(gs[p[1]][p[2]])[p[3]]

HasArguments(tc) == "function" \in DOMAIN tc /\ "arguments" \in DOMAIN tc.function

ArgumentsAt(gs, p) == At(gs, p).function.arguments

\* p is a tool call of gs
IsSite(gs, p) ==
    /\ p[1] \in 1..Len(gs)
    /\ p[2] \in 1..Len(gs[p[1]])
    /\ p[3] \in 1..Len(ToolCallsOf(gs[p[1]][p[2]]))

\* the arguments of tool call p is a string
StringAt(gs, p) == IsSite(gs, p) /\ HasArguments(At(gs, p)) /\ IsStr(ArgumentsAt(gs, p))

\* ... a string that is a JSON document
ParseableAt(gs, p) == StringAt(gs, p) /\ JsonLoads(ArgumentsAt(gs, p).val).ok

\* ... a string that is no JSON document
MalformedAt(gs, p) == StringAt(gs, p) /\ ~JsonLoads(ArgumentsAt(gs, p).val).ok

\* ... a JSON document for a string that is a JSON document again
NestedAt(gs, p) ==
    /\ ParseableAt(gs, p)
    /\ IsStr(JsonLoads(ArgumentsAt(gs, p).val).val)
    /\ JsonLoads(JsonLoads(ArgumentsAt(gs, p).val).val.val).ok

StringSites(gs) == {p \in Sites(gs) : StringAt(gs, p)}
ParseableSites(gs) == {p \in Sites(gs) : ParseableAt(gs, p)}
MalformedSites(gs) == {p \in Sites(gs) : MalformedAt(gs, p)}
NestedSites(gs) == {p \in Sites(gs) : NestedAt(gs, p)}

\* the value of the JSON document at p
ParsedAt(gs, p) == JsonLoads(ArgumentsAt(gs, p).val).val

\* p comes before q in the order of the loops
Earlier(p, q) ==
    \/ p[1] < q[1]
    \/ p[1] = q[1] /\ p[2] < q[2]
    \/ p[1] = q[1] /\ p[2] = q[2] /\ p[3] < q[3]

\* c and d are the same letter, in whatever case
SameLetter(c, d) ==
    \/ c = d
    \/ \E k \in 1..Len(LowerLetters) : {c, d} = {LowerLetters[k], UpperLetters[k]}

\* word occurs in s, letter case apart
OccursAnyCase(word, s) ==
    \E i \in 1..(Len(s) - Len(word) + 1) :
        \A j \in 1..Len(word) : SameLetter(s[i + j - 1], word[j])

\* the mapping x=1, y="a"
XYMapping == PyDict((<<"x">> :> PyInt(1)) @@ (<<"y">> :> PyStr(<<"a">>)))

\* a tool call is as it was, its string arguments apart
CallFrame(was, now) ==
    IF HasArguments(was) /\ IsStr(was.function.arguments)
    THEN /\ HasArguments(now)
         /\ now = [was EXCEPT !.function.arguments = now.function.arguments]
    ELSE now = was

\* a generation entry is as it was, the string arguments of its tool calls apart
GenFrame(was, now) ==
    IF HoldsToolCalls(was)
    THEN /\ HoldsToolCalls(now)
         /\ now = [was EXCEPT !.message.additional_kwargs.tool_calls =
                                    now.message.additional_kwargs.tool_calls]
         /\ Len(ToolCallsOf(now)) = Len(ToolCallsOf(was))
         /\ \A t \in 1..Len(ToolCallsOf(was)) :
                CallFrame(ToolCallsOf(was)[t], ToolCallsOf(now)[t])
    ELSE now = was

\* the batches, entries and tool calls are as they were, string arguments apart
Frame(was, now) ==
    /\ Len(now) = Len(was)
    /\ \A b \in 1..Len(was) :
          /\ Len(now[b]) = Len(was[b])
          /\ \A g \in 1..Len(was[b]) : GenFrame(was[b][g], now[b][g])

OtherEntry(e) == IF e = "_generate" THEN "_agenerate" ELSE "_generate"

-----------------------------------------------------------------------------
(* The claims *)

\* C1: create_chat_model returns a DeepSeekChatOpenAI when base_url contains
\* "deepseek.com" in any letter case and a ChatOpenAI for every other base_url, None
\* and the empty string included, and deciding the route raises nothing.
C1_RouteByMarker ==
    /\ error = NoError
    /\ client # "none" =>
          client = IF base_url.type = "str" /\ OccursAnyCase(Marker, base_url.val)
                   THEN "DeepSeekChatOpenAI" ELSE "ChatOpenAI"

\* a base_url with the marker partly in upper case got the patched client
C1_Witness ==
    /\ client = "DeepSeekChatOpenAI"
    /\ base_url.type = "str"
    /\ ~Contains(Marker, base_url.val)

\* C2, as claimed: whenever an entry point returns, every tool call's arguments in the
\* result is a mapping, never a raw string, whatever the underlying call returned.
C2_AlwaysMapping ==
    pc = "returned" =>
        \A p \in Sites(returned.generations) :
            HasArguments(At(returned.generations, p)) =>
                ArgumentsAt(returned.generations, p).type = "dict"

\* C2, amended: whenever an entry point returns, a tool call's arguments in the result
\* is a raw string only where the underlying call returned a string that is not valid
\* JSON (kept as it is) or that is JSON for a string (replaced by that string); every
\* string that is JSON for an object is delivered as the mapping.
C2_StringOnlyIfUndecodable ==
    pc = "returned" =>
        /\ \A p \in StringSites(returned.generations) :
              /\ StringAt(upstream.generations, p)
              /\ \/ /\ MalformedAt(upstream.generations, p)
                    /\ ArgumentsAt(returned.generations, p) = ArgumentsAt(upstream.generations, p)
                 \/ /\ ParseableAt(upstream.generations, p)
                    /\ IsStr(ParsedAt(upstream.generations, p))
                    /\ ArgumentsAt(returned.generations, p) = ParsedAt(upstream.generations, p)
        /\ \A p \in ParseableSites(upstream.generations) :
              ParsedAt(upstream.generations, p).type = "dict" =>
                  /\ IsSite(returned.generations, p)
                  /\ HasArguments(At(returned.generations, p))
                  /\ ArgumentsAt(returned.generations, p).type = "dict"

\* a result was returned in which one tool call still holds a raw string and another
\* holds the mapping decoded from a string
C2_Witness ==
    /\ pc = "returned"
    /\ StringSites(returned.generations) # {}
    /\ \E p \in ParseableSites(upstream.generations) :
          /\ ParsedAt(upstream.generations, p).type = "dict"
          /\ ArgumentsAt(returned.generations, p).type = "dict"

\* C3: a tool call whose function.arguments is a string that parses as JSON holds,
\* after the loops, the parsed value in the same record, its other fields as they
\* were; '{"x":1,"y":"a"}' becomes the mapping x=1, y="a".
C3_ParsedInPlace ==
    /\ JsonLoads(ArgsObject).ok
    /\ JsonLoads(ArgsObject).val = XYMapping
    /\ pc \in {"patched", "returned"} =>
          \A p \in ParseableSites(upstream.generations) :
              /\ IsSite(result.generations, p)
              /\ At(result.generations, p) =
                    [At(upstream.generations, p) EXCEPT
                        !.function.arguments = ParsedAt(upstream.generations, p)]

\* the string '{"x":1,"y":"a"}' was returned as the mapping x=1, y="a"
C3_Witness ==
    /\ pc = "returned"
    /\ \E p \in StringSites(upstream.generations) :
          /\ ArgumentsAt(upstream.generations, p) = PyStr(ArgsObject)
          /\ ArgumentsAt(returned.generations, p) = XYMapping

C6_IdentityWithoutStrings ==
    (pc = "returned" /\ StringSites(upstream.generations) = {}) => returned = upstream

\* a result with a structured arguments and an entry without tool_calls was returned
\* by _agenerate
C6_Witness ==
    /\ pc = "returned"
    /\ entry = "_agenerate"
    /\ StringSites(upstream.generations) = {}
    /\ \E p \in Sites(upstream.generations) :
          /\ HasArguments(At(upstream.generations, p))
          /\ ArgumentsAt(upstream.generations, p) = ArgsMapping
    /\ \E b \in 1..Len(upstream.generations) :
          \E g \in 1..Len(upstream.generations[b]) :
              /\ "message" \in DOMAIN upstream.generations[b][g]
              /\ "additional_kwargs" \in DOMAIN upstream.generations[b][g].message
              /\ "tool_calls" \notin DOMAIN upstream.generations[b][g].message.additional_kwargs

\* C7: the loops change nothing but the arguments that were strings: the batches,
\* entries and tool calls, their number and order, every other field and key, the
\* entries without a message and the tool calls without function or arguments are as
\* the underlying call returned them, and the object returned is that same object.
C7_FrameOfLoops ==
    pc \in {"patched", "returned"} =>
        /\ Frame(upstream.generations, result.generations)
        /\ result.id = upstream.id
        /\ pc = "returned" => (returned.id = upstream.id /\ returned = result)

\* a result that the loops changed was returned by _generate, beside a tool call
\* without arguments
C7_Witness ==
    /\ pc = "returned"
    /\ entry = "_generate"
    /\ returned.generations # upstream.generations
    /\ \E p \in Sites(upstream.generations) : ~HasArguments(At(upstream.generations, p))

\* C8: when the underlying call fails, the entry point fails with that same error: it
\* returns nothing, runs no loop and makes no second underlying call.
C8_ErrorPropagates ==
    upstream.kind = "error" =>
        /\ pc = "raised"
        /\ error = upstream.exc
        /\ returned = NoOutcome
        /\ result = NoOutcome
        /\ passes = 0
        /\ calls = 1

\* the underlying call of _agenerate ended in a rate-limit error
C8_Witness ==
    /\ upstream.kind = "error"
    /\ entry = "_agenerate"
    /\ error = "RateLimitError"

\* C9: _generate and _agenerate are equivalent: what one returns is what the loops of
\* the other make of the same underlying result; in both there is one underlying call,
\* the loops run once, after that call has completed and before the return.
C9_EntryPointsAgree ==
    /\ calls <= 1
    /\ pc # "idle" => calls = 1
    /\ pc = "calling" => (passes = 0 /\ upstream.kind = "none")
    /\ passes >= 1 => (passes = 1 /\ upstream.kind = "result")
    /\ returned.kind # "none" => (passes = 1 /\ pc = "returned")
    /\ pc = "returned" =>
          /\ returned.kind = "result"
          /\ returned.generations = Loops(OtherEntry(entry), upstream.generations).val

\* _agenerate returned a result that its loops had changed
C9_Witness ==
    /\ pc = "returned"
    /\ entry = "_agenerate"
    /\ returned.generations # upstream.generations

\* C10, as claimed: on every result, applying the loops again to the outcome of the
\* first application leaves it as it is.
C10_Idempotent == applied >= 2 => latest = first

\* C10, amended: applying the loops again to the outcome of the first application
\* leaves it as it is on every result in which no string arguments is JSON for a string
\* that is itself valid JSON (such a doubly encoded payload is decoded once more by
\* each further application, until the value is no JSON string).
C10_IdempotentUnlessNested ==
    (applied >= 2 /\ NestedSites(subject) = {}) => latest = first

\* the loops were applied again to a result whose first application had decoded a string
C10_Witness ==
    /\ applied >= 2
    /\ NestedSites(subject) = {}
    /\ ParseableSites(subject) # {}
    /\ first # subject

====
